---- MODULE Spec2Model ----
(***************************************************************************)
(* Model of src/tools/dump-unstable-api/src/main.rs: the attribute parser  *)
(* (the find_map closure), the metadata loader, the path reconstructor,    *)
(* the declaration lookup and main.                                        *)
(*                                                                         *)
(* An attribute string is represented by what syn's                        *)
(* Attribute::parse_outer.parse_str yields for it: a parse error, or the   *)
(* vector of outer attributes it holds (empty for a string with no tokens).*)
(* An attribute is its path (a sequence of identifiers) and what           *)
(* parse_meta() yields for it.                                             *)
(***************************************************************************)
EXTENDS Integers, Sequences, FiniteSets, TLC

VARIABLES
    attr,        \* the attribute string handed to the find_map closure
    result,      \* what the closure yielded for attr
    corpus,      \* the directory: the documentation sets in read_dir order
    pc,          \* position in the program
    all_items,   \* main.rs:19  id -> feature
    all_crates,  \* main.rs:20  the sets loaded so far
    pending,     \* entries of all_items the loop of main.rs:84 has not visited
    out,         \* main.rs:83  feature -> Vec<Id>
    run,         \* which execution of the loader over the same corpus this is
    prev_out,    \* the FeatureIndex the previous execution returned
    target,      \* main.rs:137 items_from_feature.first()
    tree,        \* main.rs:137 result of extract_item_tree_for_id
    picked,      \* per level, the identifier whose record main emitted
    items        \* main.rs:139 the records emitted so far

vars == <<attr, result, corpus, pc, all_items, all_crates, pending, out, run,
          prev_out, target, tree, picked, items>>

----------------------------------------------------------------------------
(* Bounds *)

MaxNested == 3
MaxDecls == 3
NumCrates == 2
MaxPathLen == 2

----------------------------------------------------------------------------
(* Option values *)

None == [tag |-> "None", val |-> ""]
Some(v) == [tag |-> "Some", val |-> v]
Panic == [tag |-> "Panic", val |-> ""]

EmptyMap == <<>>

----------------------------------------------------------------------------
(* Attribute strings, as parsed by syn *)

StrLit(s) == [kind |-> "Str", value |-> s]
IntLit(s) == [kind |-> "Int", value |-> s]

NestedLit(l) == [kind |-> "Lit", path |-> <<>>, lit |-> l]
NestedPath(p) == [kind |-> "Path", path |-> p, lit |-> StrLit("")]
NestedNameValue(p, l) == [kind |-> "NameValue", path |-> p, lit |-> l]

MetaErr == [kind |-> "Err", nested |-> <<>>]
MetaPath == [kind |-> "Path", nested |-> <<>>]
MetaNameValue == [kind |-> "NameValue", nested |-> <<>>]
MetaList(n) == [kind |-> "List", nested |-> n]

Attribute(p, m) == [path |-> p, meta |-> m]

ParseErr == [ok |-> FALSE, attrs |-> <<>>]
ParseOk(v) == [ok |-> TRUE, attrs |-> v]

SeqsUpTo(S, n) == UNION {[1..k -> S] : k \in 0..n}

NestedEntries ==
    { NestedLit(StrLit("f1")),
      NestedPath(<<"feature">>),
      NestedNameValue(<<"feature">>, StrLit("f1")),
      NestedNameValue(<<"feature">>, StrLit("f2")),
      NestedNameValue(<<"feature">>, IntLit("1")),
      NestedNameValue(<<"since">>, StrLit("f1")),
      NestedNameValue(<<"a", "feature">>, StrLit("f1")) }

AttrPaths == { <<"unstable">>, <<"stable">>, <<"unstable_foo">>, <<"a", "unstable">> }

Metas == {MetaErr, MetaPath, MetaNameValue}
             \cup {MetaList(n) : n \in SeqsUpTo(NestedEntries, MaxNested)}

Attributes == {Attribute(p, m) : p \in AttrPaths, m \in Metas}

TrailingAttributes ==
    { Attribute(<<"unstable">>, MetaList(<<NestedNameValue(<<"feature">>, StrLit("f2"))>>)),
      Attribute(<<"stable">>, MetaPath) }

AttrStrings ==
    {ParseErr, ParseOk(<<>>)}
        \cup {ParseOk(<<a>>) : a \in Attributes}
        \cup {ParseOk(<<a, b>>) : a \in Attributes, b \in TrailingAttributes}

----------------------------------------------------------------------------
(* The attribute parser *)

is_ident(ident, name) == ident = name

\* syn::Path::get_ident: the identifier of a single-segment path
get_ident(path) == IF Len(path) = 1 THEN Some(path[1]) ELSE None

get_feature_name_any(nested) ==
    IF nested.kind = "NameValue"
    THEN IF get_ident(nested.path) = None
         THEN None
         ELSE IF nested.lit.kind = "Str" THEN Some(nested.lit.value) ELSE None
    ELSE None

get_feature_name(nested) ==
    IF nested.kind = "NameValue"
    THEN IF get_ident(nested.path) = None
         THEN None
         ELSE IF ~is_ident(get_ident(nested.path).val, "feature")
              THEN None
              ELSE IF nested.lit.kind = "Str" THEN Some(nested.lit.value) ELSE None
    ELSE None

RECURSIVE scan_nested(_, _)
scan_nested(nested, i) ==
    IF i > Len(nested)
    THEN None
    ELSE IF get_feature_name(nested[i]) # None
         THEN get_feature_name(nested[i])
         ELSE scan_nested(nested, i + 1)

\* Vec::swap_remove(0): the first element, or a panic on an empty vector
swap_remove_0(v) == IF Len(v) = 0 THEN Panic ELSE Some(v[1])

unstable_feature_of_attr(a) ==
    IF ~a.ok
    THEN None
    ELSE IF swap_remove_0(a.attrs) = Panic
         THEN Panic
         ELSE LET parsed == swap_remove_0(a.attrs).val
              IN  IF get_ident(parsed.path) = None
                  THEN None
                  ELSE IF ~is_ident(get_ident(parsed.path).val, "unstable")
                       THEN None
                       ELSE IF parsed.meta.kind # "List"
                            THEN None
                            ELSE scan_nested(parsed.meta.nested, 1)

----------------------------------------------------------------------------
(* Specification of the attribute parser alone *)

Idle ==
    /\ corpus = <<>>
    /\ all_items = EmptyMap
    /\ all_crates = <<>>
    /\ pending = {}
    /\ out = EmptyMap
    /\ run = 1
    /\ prev_out = EmptyMap
    /\ target = None
    /\ tree = <<>>
    /\ picked = <<>>
    /\ items = <<>>

InitAttr ==
    /\ attr \in AttrStrings
    /\ result = None
    /\ pc = "parse"
    /\ Idle

ApplyParser ==
    /\ pc = "parse"
    /\ result' = unstable_feature_of_attr(attr)
    /\ pc' = IF result' = Panic THEN "abort_swap_remove" ELSE "parsed"
    /\ UNCHANGED <<attr, corpus, all_items, all_crates, pending, out, run,
                   prev_out, target, tree, picked, items>>

NextAttr == ApplyParser

SpecAttr == InitAttr /\ [][NextAttr]_vars

----------------------------------------------------------------------------
(* Documentation sets *)

Ids == {"i1", "i2"}

Item(n, a) == [name |-> n, attrs |-> a]
Crate(ix, ps) == [index |-> ix, paths |-> ps]

PartialFns(D, R) == UNION {[S -> R] : S \in SUBSET D}

RECURSIVE SumOver(_, _)
SumOver(f, S) ==
    IF S = {} THEN 0
    ELSE LET x == CHOOSE y \in S : TRUE IN f[x] + SumOver(f, S \ {x})

\* #[unstable(feature = "default_free_fn", issue = "none")]
AttrDefaultFreeFn ==
    ParseOk(<<Attribute(<<"unstable">>,
        MetaList(<<NestedNameValue(<<"feature">>, StrLit("default_free_fn")),
                   NestedNameValue(<<"issue">>, StrLit("none"))>>))>>)

\* #[unstable(issue = "none", feature = "other")]
AttrOther ==
    ParseOk(<<Attribute(<<"unstable">>,
        MetaList(<<NestedNameValue(<<"issue">>, StrLit("none")),
                   NestedNameValue(<<"feature">>, StrLit("other"))>>))>>)

\* #[stable(feature = "default_free_fn", since = "1.0")]
AttrStable ==
    ParseOk(<<Attribute(<<"stable">>,
        MetaList(<<NestedNameValue(<<"feature">>, StrLit("default_free_fn")),
                   NestedNameValue(<<"since">>, StrLit("1.0"))>>))>>)

\* the empty string
AttrEmpty == ParseOk(<<>>)

LoadItems ==
    { Item(None, <<AttrDefaultFreeFn>>),
      Item(Some("f"), <<>>),
      Item(Some("f"), <<AttrStable>>),
      Item(Some("f"), <<AttrDefaultFreeFn>>),
      Item(Some("g"), <<AttrOther, AttrDefaultFreeFn>>),
      Item(Some("g"), <<AttrStable, AttrDefaultFreeFn, AttrOther>>),
      Item(Some("h"), <<AttrEmpty>>) }

DeclCount(c) == SumOver([i \in DOMAIN c |-> Cardinality(DOMAIN c[i].index)], DOMAIN c)

LoadCorpora ==
    {c \in [1..NumCrates -> {Crate(ix, EmptyMap) : ix \in PartialFns(Ids, LoadItems)}] :
        DeclCount(c) <= MaxDecls}

----------------------------------------------------------------------------
(* The metadata loader *)

\* item.attrs.iter().find_map(closure): the closure's first result that is
\* not "no match"; a panic of the closure ends the scan
RECURSIVE find_map_from(_, _)
find_map_from(attrs, i) ==
    IF i > Len(attrs)
    THEN None
    ELSE IF unstable_feature_of_attr(attrs[i]) # None
         THEN unstable_feature_of_attr(attrs[i])
         ELSE find_map_from(attrs, i + 1)

RECURSIVE find_map_last(_, _)
find_map_last(attrs, i) ==
    IF i > Len(attrs)
    THEN None
    ELSE IF unstable_feature_of_attr(attrs[i]) = Panic
         THEN Panic
         ELSE IF find_map_last(attrs, i + 1) # None
              THEN find_map_last(attrs, i + 1)
              ELSE unstable_feature_of_attr(attrs[i])

unstable_feature_last(item) == find_map_last(item.attrs, 1)

unstable_feature(item) == find_map_from(item.attrs, 1)

\* the declarations the loop of main.rs:29 does not skip
scanned_ids_all(krate) == DOMAIN krate.index

scanned_ids(krate) == {id \in DOMAIN krate.index : krate.index[id].name # None}

load_panics(krate) ==
    \E id \in scanned_ids(krate) : unstable_feature(krate.index[id]) = Panic

crate_items_of(krate) ==
    [id \in {i \in scanned_ids(krate) : unstable_feature(krate.index[i]).tag = "Some"}
        |-> unstable_feature(krate.index[id]).val]

\* for (id, feat) in crate_items { all_items.insert(id, feat) }
insert_all(items_map, crate_items) == crate_items @@ items_map

\* out.entry(feature).or_default().push(id)
push_entry(o, feature, id) ==
    IF feature \in DOMAIN o
    THEN [o EXCEPT ![feature] = Append(@, id)]
    ELSE (feature :> <<id>>) @@ o

get_item_first_crate_only(crates, id) ==
    IF Len(crates) >= 1 /\ id \in DOMAIN crates[1].index
    THEN [tag |-> "Some", val |-> crates[1].index[id]]
    ELSE [tag |-> "None", val |-> Item(None, <<>>)]

RECURSIVE get_item_from(_, _, _)
get_item_from(crates, id, i) ==
    IF i > Len(crates)
    THEN [tag |-> "None", val |-> Item(None, <<>>)]
    ELSE IF id \in DOMAIN crates[i].index
         THEN [tag |-> "Some", val |-> crates[i].index[id]]
         ELSE get_item_from(crates, id, i + 1)

get_item_for_id(crates, id) == get_item_from(crates, id, 1)

NoMain ==
    /\ target = None
    /\ tree = <<>>
    /\ picked = <<>>
    /\ items = <<>>

InitLoad ==
    /\ corpus \in LoadCorpora
    /\ pc = "load"
    /\ all_items = EmptyMap
    /\ all_crates = <<>>
    /\ pending = {}
    /\ out = EmptyMap
    /\ run = 1
    /\ prev_out = EmptyMap
    /\ attr = ParseErr
    /\ result = None
    /\ NoMain

\* one iteration of the loop over the directory, main.rs:22-81
LoadFile ==
    /\ pc = "load"
    /\ Len(all_crates) < Len(corpus)
    /\ LET krate == corpus[Len(all_crates) + 1]
       IN  IF load_panics(krate)
           THEN /\ pc' = "abort_swap_remove"
                /\ UNCHANGED <<all_items, all_crates>>
           ELSE /\ all_items' = insert_all(all_items, crate_items_of(krate))
                /\ all_crates' = Append(all_crates, krate)
                /\ pc' = "load"
    /\ UNCHANGED <<attr, result, corpus, pending, out, run, prev_out, target,
                   tree, picked, items>>

\* main.rs:83-84: the directory is exhausted, iteration over all_items starts
BeginInvert ==
    /\ pc = "load"
    /\ Len(all_crates) = Len(corpus)
    /\ out' = EmptyMap
    /\ pending' = DOMAIN all_items
    /\ pc' = "invert"
    /\ UNCHANGED <<attr, result, corpus, all_items, all_crates, run, prev_out,
                   target, tree, picked, items>>

\* main.rs:84-86: one iteration; a HashMap yields its entries in any order
InvertStep ==
    /\ pc = "invert"
    /\ \E id \in pending :
          /\ out' = push_entry(out, all_items[id], id)
          /\ pending' = pending \ {id}
    /\ UNCHANGED <<attr, result, corpus, pc, all_items, all_crates, run,
                   prev_out, target, tree, picked, items>>

\* main.rs:88
ReturnLoaded ==
    /\ pc = "invert"
    /\ pending = {}
    /\ pc' = "loaded"
    /\ UNCHANGED <<attr, result, corpus, all_items, all_crates, pending, out,
                   run, prev_out, target, tree, picked, items>>

NextLoad == LoadFile \/ BeginInvert \/ InvertStep \/ ReturnLoaded

SpecLoad == InitLoad /\ [][NextLoad]_vars

\* a second execution of the loader over the same directory
Rerun ==
    /\ pc = "loaded"
    /\ run = 1
    /\ run' = 2
    /\ prev_out' = out
    /\ all_items' = EmptyMap
    /\ all_crates' = <<>>
    /\ pending' = {}
    /\ out' = EmptyMap
    /\ pc' = "load"
    /\ UNCHANGED <<attr, result, corpus, target, tree, picked, items>>

NextRerun == NextLoad \/ Rerun

SpecRerun == InitLoad /\ [][NextRerun]_vars

----------------------------------------------------------------------------
(* The path reconstructor, the declaration lookup and main *)

\* the paths a, a::a, ... of up to MaxPathLen segments, and the sibling path b
PathSet == {[i \in 1..k |-> "a"] : k \in 1..MaxPathLen} \cup {<<"b">>}

ItemX == Item(Some("x"), <<AttrDefaultFreeFn>>)
ItemY == Item(Some("y"), <<>>)

MainCrates ==
    {Crate(ix, ps) : ix \in PartialFns(Ids, {ItemX, ItemY}), ps \in PartialFns(Ids, PathSet)}

MainCorpora == [1..2 -> MainCrates]

\* the orders in which iteration over a HashMap keyed by Ids can yield them
Orders(S) == {o \in [1..Cardinality(S) -> S] : \A i, j \in DOMAIN o : i # j => o[i] # o[j]}

Prefix(path, i) == SubSeq(path, 1, i)

\* crates.iter().flat_map(|c| c.paths.get(id)).collect()
RECURSIVE paths_of_id_from(_, _, _)
paths_of_id_from(crates, id, i) ==
    IF i > Len(crates)
    THEN <<>>
    ELSE IF id \in DOMAIN crates[i].paths
         THEN <<crates[i].paths[id]>> \o paths_of_id_from(crates, id, i + 1)
         ELSE paths_of_id_from(crates, id, i + 1)

paths_of_id(crates, id) == paths_of_id_from(crates, id, 1)

assert_eq_at_least_1(n) == n >= 1

\* assert_eq!(path.len(), 1)
assert_eq_1(n) == n = 1

\* c.paths.iter().find(|&(_, item)| &item.path == &path_segment).map(|v| v.0.clone())
\* with the table yielding its entries in the order ord
RECURSIVE find_path_from(_, _, _, _)
find_path_from(c, path_segment, ord, k) ==
    IF k > Len(ord)
    THEN None
    ELSE IF ord[k] \in DOMAIN c.paths /\ c.paths[ord[k]] = path_segment
         THEN Some(ord[k])
         ELSE find_path_from(c, path_segment, ord, k + 1)

find_path(c, path_segment, ord) == find_path_from(c, path_segment, ord, 1)

\* crates.iter().flat_map(find ...).collect::<Vec<_>>()
RECURSIVE level_ids_from(_, _, _, _)
level_ids_from(crates, path_segment, ords, i) ==
    IF i > Len(crates)
    THEN <<>>
    ELSE IF find_path(crates[i], path_segment, ords[i]) # None
         THEN <<find_path(crates[i], path_segment, ords[i]).val>>
                  \o level_ids_from(crates, path_segment, ords, i + 1)
         ELSE level_ids_from(crates, path_segment, ords, i + 1)

level_ids(crates, path_segment, ords) == level_ids_from(crates, path_segment, ords, 1)

extract_item_tree(crates, path, ords) ==
    [i \in 1..Len(path) |-> level_ids(crates, Prefix(path, i), ords)]

\* id.into_iter().flat_map(|id| get_item_for_id(&crates, &id)).next():
\* the position in the level of the first identifier some set's index holds
RECURSIVE first_found_from(_, _, _)
first_found_from(crates, level, k) ==
    IF k > Len(level)
    THEN 0
    ELSE IF get_item_for_id(crates, level[k]).tag = "Some"
         THEN k
         ELSE first_found_from(crates, level, k + 1)

first_found(crates, level) == first_found_from(crates, level, 1)

InitMain ==
    /\ corpus \in MainCorpora
    /\ pc = "load"
    /\ all_items = EmptyMap
    /\ all_crates = <<>>
    /\ pending = {}
    /\ out = EmptyMap
    /\ run = 1
    /\ prev_out = EmptyMap
    /\ attr = ParseErr
    /\ result = None
    /\ NoMain

\* main.rs:136-137  mapping.get("default_free_fn") ... .first().unwrap()
SelectTarget ==
    /\ pc = "loaded"
    /\ LET items_from_feature ==
               IF "default_free_fn" \in DOMAIN out THEN out["default_free_fn"] ELSE <<>>
       IN  IF Len(items_from_feature) = 0
           THEN /\ pc' = "abort_unwrap_first"
                /\ target' = target
           ELSE /\ pc' = "extract"
                /\ target' = Some(items_from_feature[1])
    /\ UNCHANGED <<attr, result, corpus, all_items, all_crates, pending, out,
                   run, prev_out, tree, picked, items>>

\* main.rs:91-114  extract_item_tree_for_id(&crates, id)
ExtractTree ==
    /\ pc = "extract"
    /\ LET path == paths_of_id(all_crates, target.val)
       IN  IF ~assert_eq_1(Len(path))
           THEN /\ pc' = "abort_assert_eq"
                /\ tree' = tree
           ELSE /\ pc' = "lookup"
                /\ \E ords \in [1..Len(all_crates) -> Orders(Ids)] :
                       tree' = extract_item_tree(all_crates, path[1], ords)
    /\ UNCHANGED <<attr, result, corpus, all_items, all_crates, pending, out,
                   run, prev_out, target, picked, items>>

\* main.rs:138-139  one level of the chain
LookupLevel ==
    /\ pc = "lookup"
    /\ Len(items) < Len(tree)
    /\ LET level == tree[Len(items) + 1]
           k == first_found(all_crates, level)
       IN  IF k = 0
           THEN /\ pc' = "abort_unwrap_item"
                /\ UNCHANGED <<picked, items>>
           ELSE /\ pc' = "lookup"
                /\ picked' = Append(picked, level[k])
                /\ items' = Append(items, get_item_for_id(all_crates, level[k]).val)
    /\ UNCHANGED <<attr, result, corpus, all_items, all_crates, pending, out,
                   run, prev_out, target, tree>>

\* main.rs:140
PrintItems ==
    /\ pc = "lookup"
    /\ Len(items) = Len(tree)
    /\ pc' = "done"
    /\ UNCHANGED <<attr, result, corpus, all_items, all_crates, pending, out,
                   run, prev_out, target, tree, picked, items>>

NextMain ==
    \/ LoadFile \/ BeginInvert \/ InvertStep \/ ReturnLoaded
    \/ SelectTarget \/ ExtractTree \/ LookupLevel \/ PrintItems

SpecMain == InitMain /\ [][NextMain]_vars

----------------------------------------------------------------------------
(* Properties of the attribute parser *)

\* The first attribute of the string, when the string parses to at least one
FirstAttribute(a) == a.attrs[1]

IsFeatureEntry(n) ==
    /\ n.kind = "NameValue"
    /\ n.path = <<"feature">>
    /\ n.lit.kind = "Str"

\* a is shaped like unstable(feature = "X", ...)
ShapedUnstable(a) ==
    /\ a.ok
    /\ Len(a.attrs) >= 1
    /\ FirstAttribute(a).path = <<"unstable">>
    /\ FirstAttribute(a).meta.kind = "List"
    /\ \E i \in 1..Len(FirstAttribute(a).meta.nested) :
           IsFeatureEntry(FirstAttribute(a).meta.nested[i])

\* a is an unstable(...) attribute in list form
IsUnstableList(a) ==
    /\ a.ok
    /\ Len(a.attrs) >= 1
    /\ FirstAttribute(a).path = <<"unstable">>
    /\ FirstAttribute(a).meta.kind = "List"

FeatureEntryIndexes(nested) == {i \in 1..Len(nested) : IsFeatureEntry(nested[i])}

FirstFeatureValue(nested) ==
    IF FeatureEntryIndexes(nested) = {}
    THEN None
    ELSE LET i == CHOOSE k \in FeatureEntryIndexes(nested) :
                      \A j \in FeatureEntryIndexes(nested) : k <= j
         IN  Some(nested[i].lit.value)

\* C2: for every attribute string that is not shaped like
\* unstable(feature = "X", ...), the parser yields "no match": it neither
\* aborts the run nor returns a feature name.
C2_NoMatchNeverAborts ==
    (pc # "parse" /\ ~ShapedUnstable(attr)) => (pc = "parsed" /\ result = None)

\* C4: for an unstable(...) list-form attribute the parser returns the string
\* value of the first feature = "<string>" entry in argument-list order,
\* skipping every other entry, and "no match" when there is none.
C4_FirstFeatureEntryWins ==
    (pc # "parse" /\ IsUnstableList(attr)) =>
        (pc = "parsed" /\ result = FirstFeatureValue(FirstAttribute(attr).meta.nested))

\* C4 witness: a skipped entry precedes two feature entries with different
\* values, and the parser returned the first one.
C4_Witness ==
    /\ pc = "parsed"
    /\ IsUnstableList(attr)
    /\ LET nested == FirstAttribute(attr).meta.nested
       IN  /\ Len(nested) = 3
           /\ ~IsFeatureEntry(nested[1])
           /\ nested[1].kind = "NameValue"
           /\ IsFeatureEntry(nested[2])
           /\ IsFeatureEntry(nested[3])
           /\ nested[2].lit.value # nested[3].lit.value
           /\ result = Some(nested[2].lit.value)

----------------------------------------------------------------------------
(* Properties of the metadata loader *)

ListedIn(o, f) == {o[f][k] : k \in 1..Len(o[f])}

\* how often id occurs over all lists of the index o
Occurrences(o, id) ==
    SumOver([f \in DOMAIN o |-> Cardinality({k \in 1..Len(o[f]) : o[f][k] = id})],
            DOMAIN o)

TotalListed(o) == SumOver([f \in DOMAIN o |-> Len(o[f])], DOMAIN o)

MarkerIndexes(d) == {k \in 1..Len(d.attrs) : ShapedUnstable(d.attrs[k])}

\* d has a name and carries at least one recognized unstable marker
NamedAndMarked(d) == d.name # None /\ MarkerIndexes(d) # {}

\* the feature of d's first recognized marker, in attribute-list order
FirstMarkerFeature(d) ==
    LET k == CHOOSE i \in MarkerIndexes(d) : \A j \in MarkerIndexes(d) : i <= j
    IN  FirstFeatureValue(FirstAttribute(d.attrs[k]).meta.nested).val

Declarations(c) == {<<i, id>> \in (DOMAIN c) \X Ids : id \in DOMAIN c[i].index}

DisjointIds(c) ==
    \A i, j \in DOMAIN c :
        i # j => (DOMAIN c[i].index) \cap (DOMAIN c[j].index) = {}

\* C1: after the loader returns, every identifier in any list of the index
\* is found by get_item_for_id over the loaded sets.
C1_IndexedIdsAreFound ==
    pc = "loaded" =>
        \A f \in DOMAIN out : \A id \in ListedIn(out, f) :
            get_item_for_id(all_crates, id).tag = "Some"

\* C1 witness: the loader returned an index holding an identifier that only
\* a set other than the first one declares.
C1_Witness ==
    /\ pc = "loaded"
    /\ \E f \in DOMAIN out : \E id \in ListedIn(out, f) :
           /\ id \notin DOMAIN all_crates[1].index
           /\ get_item_for_id(all_crates, id).tag = "Some"

\* C3: with pairwise disjoint identifier spaces, the number of identifiers
\* over all lists of the index equals the number of declarations, over all
\* sets, that have a name and carry a recognized unstable marker.
C3_CountOfNamedMarked ==
    (pc = "loaded" /\ DisjointIds(corpus)) =>
        TotalListed(out) =
            Cardinality({d \in Declarations(corpus) :
                            NamedAndMarked(corpus[d[1]].index[d[2]])})

\* C3 witness: disjoint sets, each declaring something, with a declaration
\* that is listed and one that contributes nothing.
C3_Witness ==
    /\ pc = "loaded"
    /\ DisjointIds(corpus)
    /\ \A i \in DOMAIN corpus : i <= 2 => DOMAIN corpus[i].index # {}
    /\ TotalListed(out) >= 1
    /\ \E d \in Declarations(corpus) : ~NamedAndMarked(corpus[d[1]].index[d[2]])

\* C8 as claimed: every declaration's identifier occurs at most once over all
\* lists; it is listed under the feature of the declaration's first marker
\* when the declaration is named and marked, and in no list otherwise.
C8_EachDeclarationOneEntry ==
    pc = "loaded" =>
        \A d \in Declarations(corpus) :
            LET decl == corpus[d[1]].index[d[2]]
            IN  /\ Occurrences(out, d[2]) <= 1
                /\ IF NamedAndMarked(decl)
                   THEN /\ FirstMarkerFeature(decl) \in DOMAIN out
                        /\ d[2] \in ListedIn(out, FirstMarkerFeature(decl))
                   ELSE Occurrences(out, d[2]) = 0

\* the sets, by position, whose declaration under id is named and marked
MarkingSets(c, id) ==
    {i \in DOMAIN c : id \in DOMAIN c[i].index /\ NamedAndMarked(c[i].index[id])}

\* C8 as amended: every identifier occurs at most once over all lists; it is
\* listed under the feature of the first marker of the named, marked
\* declaration that the last-loaded set having one declares under it, and in
\* no list when no set has such a declaration.
C8_LastMarkingSetDecides ==
    pc = "loaded" =>
        \A id \in Ids :
            /\ Occurrences(out, id) <= 1
            /\ IF MarkingSets(corpus, id) = {}
               THEN Occurrences(out, id) = 0
               ELSE LET last == CHOOSE i \in MarkingSets(corpus, id) :
                                    \A j \in MarkingSets(corpus, id) : j <= i
                        f == FirstMarkerFeature(corpus[last].index[id])
                    IN  f \in DOMAIN out /\ id \in ListedIn(out, f)

\* C8 witness: an identifier declared by two sets, the later declaration
\* carrying two markers of different features, listed under the first of them.
C8_Witness ==
    /\ pc = "loaded"
    /\ \E id \in Ids :
           /\ Cardinality(MarkingSets(corpus, id)) >= 2
           /\ LET decl == corpus[2].index[id]
              IN  /\ 2 \in MarkingSets(corpus, id)
                  /\ Cardinality(MarkerIndexes(decl)) >= 2
                  /\ "other" \in DOMAIN out
                  /\ id \in ListedIn(out, "other")
                  /\ FirstMarkerFeature(corpus[1].index[id]) = "default_free_fn"

\* C7: two executions of the loader over the same sets in the same file
\* order return identical lists in identical order.
C7_SameOrderEveryRun ==
    (pc = "loaded" /\ run = 2) => out = prev_out

----------------------------------------------------------------------------
(* Properties of the path reconstructor and of main *)

\* the sets, by position, whose paths table has an entry for id
PathTableHits(crates, id) == {i \in DOMAIN crates : id \in DOMAIN crates[i].paths}

\* the (set, identifier) entries, over all sets, whose path is p
PathMatches(crates, p) ==
    {e \in (DOMAIN crates) \X Ids :
        e[2] \in DOMAIN crates[e[1]].paths /\ crates[e[1]].paths[e[2]] = p}

\* the path of the target in the one set that has it
TargetPath ==
    LET i == CHOOSE j \in PathTableHits(all_crates, target.val) : TRUE
    IN  all_crates[i].paths[target.val]

ExtractCalled == pc \in {"abort_assert_eq", "lookup", "abort_unwrap_item", "done"}
ExtractReturned == pc \in {"lookup", "abort_unwrap_item", "done"}

\* C9: extract_item_tree_for_id aborts, returning nothing, whenever the
\* identifier has a paths entry in zero sets or in more than one, and returns
\* a chain only when exactly one set has an entry for it.
C9_AbortsUnlessOneSetHasPath ==
    ExtractCalled =>
        IF Cardinality(PathTableHits(all_crates, target.val)) = 1
        THEN ExtractReturned
        ELSE pc = "abort_assert_eq" /\ tree = <<>>

\* C9 witness: the call aborted on an identifier that two sets have a paths
\* entry for.
C9_Witness ==
    /\ pc = "abort_assert_eq"
    /\ Cardinality(PathTableHits(all_crates, target.val)) = 2

\* C5: for a target whose path has k segments the chain has exactly k levels,
\* level i holding identifiers whose path is the prefix of i segments, and
\* the target is in the last level.
C5_ChainResolvesBackToTarget ==
    ExtractReturned =>
        /\ Len(tree) = Len(TargetPath)
        /\ \A i \in 1..Len(tree) : \A k \in 1..Len(tree[i]) :
               \E e \in PathMatches(all_crates, Prefix(TargetPath, i)) : e[2] = tree[i][k]
        /\ \E k \in 1..Len(tree[Len(tree)]) : tree[Len(tree)][k] = target.val

\* C6: whenever some non-empty prefix of the target's path maps to zero
\* identifiers or to more than one across the sets, the run fails: main never
\* prints a chain built by picking one of several matching identifiers.
C6_AmbiguousPrefixFailsLoudly ==
    pc = "done" =>
        \A i \in 1..Len(TargetPath) :
            Cardinality(PathMatches(all_crates, Prefix(TargetPath, i))) = 1

\* C10: the record main emits for each level is the one held, under the
\* picked identifier, by the index of the set whose paths table resolved the
\* level's prefix to that identifier.
C10_RecordFromResolvingSet ==
    pc = "done" =>
        \A i \in 1..Len(items) :
            \A e \in PathMatches(all_crates, Prefix(TargetPath, i)) :
                (e[2] = picked[i] /\ picked[i] \in DOMAIN all_crates[e[1]].index)
                    => items[i] = all_crates[e[1]].index[picked[i]]

====
